---- MODULE Spec2Model ----
(***************************************************************************)
(* DeltaTableIncrementalMerger (ClubRoyaleBronzeToSilver.ipynb).           *)
(*                                                                         *)
(* The source table and its change data feed, the target table, the        *)
(* streaming checkpoint, the driver thread that runs                       *)
(* start_incremental_merge and the streaming query thread it starts.       *)
(***************************************************************************)
EXTENDS Integers, Sequences, FiniteSets, TLC

VARIABLES
  workload,     \* the rows the writers of the source draw from in this behaviour
  source,       \* rows of the source table (its current snapshot)
  feed,         \* change data feed of the source: per commit, its change records
  tableExists,  \* spark.catalog.tableExists(target_table)
  targetCols,   \* columns of the target table
  target,       \* rows of the target table: a bag, row -> number of copies
  planned,      \* checkpoint, offsets log: end offset of the latest planned batch
  committed,    \* checkpoint, commits log: end offset of the latest committed batch
  endOffset,    \* availableNow: the feed offset the running query drains to
  startOffset,  \* the checkpointed offset the running query started from
  mainpc,       \* driver thread position inside start_incremental_merge
  streampc,     \* streaming query thread position
  runs,         \* invocations of start_incremental_merge so far
  crashed,      \* history: a run has been aborted
  mergedUpTo,   \* history: highest feed offset whose MERGE has committed
  last,         \* history: the latest statement that wrote the target
  prev,         \* history: the statement that wrote the target before `last`
  shadow        \* history: targets of the same schedule with no batch redelivered

vars == << workload, source, feed, tableExists, targetCols, target, planned, committed,
           endOffset, startOffset, mainpc, streampc, runs, crashed, mergedUpTo, last, prev,
           shadow >>

-----------------------------------------------------------------------------
(* Bounds of the model *)

MaxFeed == 2
MaxRuns == 2

-----------------------------------------------------------------------------
(* Values.  A column value is NULL or a one-element tuple holding the value. *)

NULL == << >>

Some(v) == << v >>

Row(k, d, p) == [RewardNumber |-> k[1], OfferCode |-> k[2], DateIngested |-> d, Payload |-> p]

\* Keys.  KA and KB differ only in where the separator character falls; KN has
\* an absent RewardNumber.
KA == << Some("a_a"), Some("a") >>

KB == << Some("a"), Some("a_a") >>

KN == << NULL, Some("a") >>
KC == << Some("a_a"), Some("b") >>

\* Two keys that differ only by the place of the separator.
SeparatorRows == { Row(KA, Some(1), "x"), Row(KB, Some(1), "x") }

\* Two records of one key, the second more recent than the first.
VersionRows == { Row(KA, Some(1), "x"), Row(KA, Some(2), "y") }

\* Two records of one key that tie on recency.
TiedRows == { Row(KA, Some(1), "x"), Row(KA, Some(1), "y") }

\* Records whose key has an absent column.
AbsentKeyRows == { Row(KN, Some(1), "x"), Row(KN, Some(2), "y") }

\* Two records of one key, the first with no value in the recency column.
NoRecencyRows == { Row(KA, NULL, "x"), Row(KA, Some(1), "y") }

\* Two keys that share a column and have different temp_keys.
DistinctRows == { Row(KA, Some(1), "x"), Row(KC, Some(1), "x") }

Workloads ==
  { SeparatorRows, VersionRows, TiedRows, AbsentKeyRows, NoRecencyRows, DistinctRows }

Rows == UNION Workloads

SourceCols == { "RewardNumber", "OfferCode", "DateIngested", "Payload" }

-----------------------------------------------------------------------------
(* Constructor arguments *)

order_by_col == "DateIngested"

partition_by_cols == << "RewardNumber", "OfferCode" >>

cols_to_remove == { }

\* A SQL comparison a = b is TRUE only for two equal non-NULL values; with a
\* NULL operand it is NULL, which neither ON nor WHERE accepts.
SqlEq(a, b) == a # NULL /\ b # NULL /\ a = b

merge_condition(target_df, batch_df) ==
  /\ SqlEq(target_df.RewardNumber, batch_df.RewardNumber)
  /\ SqlEq(target_df.OfferCode, batch_df.OfferCode)

\* The key columns of a row, in the configured order.
KeyOf(r) == [i \in 1..Len(partition_by_cols) |-> r[partition_by_cols[i]]]

-----------------------------------------------------------------------------
(* Bags of rows *)

EmptyTable == [ r \in {} |-> 0 ]

RowsOf(t) == DOMAIN t

RECURSIVE SumCopies(_, _)
SumCopies(t, S) ==
  IF S = {} THEN 0
  ELSE LET r == CHOOSE r \in S : TRUE IN t[r] + SumCopies(t, S \ {r})

KeySet(t) == { KeyOf(r) : r \in RowsOf(t) }

-----------------------------------------------------------------------------
(* Deduplicator: row_number() over (partition by key columns order by       *)
(* order_by_col desc) = 1                                                  *)

\* Window.partitionBy groups rows whose key columns are equal, NULLs together.
Partitions(recs) ==
  { { r \in recs : KeyOf(r) = k } : k \in { KeyOf(r) : r \in recs } }

\* q sorts strictly before r under order_by_col desc (NULLs last).
SortsBefore(q, r) ==
  /\ q[order_by_col] # NULL
  /\ \/ r[order_by_col] = NULL
     \/ q[order_by_col][1] > r[order_by_col][1]

\* The rows of a partition that may get row_num 1: none sorts before them.
\* Rows that tie on order_by_col are numbered in an order the engine picks.
FirstRows(part) == { r \in part : \A q \in part : ~SortsBefore(q, r) }

\* Every result the row_num = 1 filter can give: one first row per partition.
Dedup(recs) ==
  { d \in SUBSET recs :
      \A part \in Partitions(recs) :
        /\ d \cap part \subseteq FirstRows(part)
        /\ Cardinality(d \cap part) = 1 }

-----------------------------------------------------------------------------
(* Merge Applier: MERGE INTO target USING batch_df ON merge_condition       *)
(* WHEN MATCHED THEN UPDATE SET * WHEN NOT MATCHED THEN INSERT *           *)

Matched(t, batch_df) == \E b \in batch_df : merge_condition(t, b)

UpdateSetAll(t, batch_df) ==
  IF Matched(t, batch_df)
  THEN CHOOSE b \in batch_df : merge_condition(t, b)
  ELSE t

NotMatched(target_df, batch_df) ==
  { b \in batch_df : \A t \in RowsOf(target_df) : ~merge_condition(t, b) }

MergeInto(target_df, batch_df) ==
  LET updated  == { UpdateSetAll(t, batch_df) : t \in RowsOf(target_df) }
      inserted == NotMatched(target_df, batch_df)
  IN  [ r \in updated \cup inserted |->
          SumCopies(target_df, { t \in RowsOf(target_df) : UpdateSetAll(t, batch_df) = r })
          + (IF r \in inserted THEN 1 ELSE 0) ]

\* Every target the dedup-then-merge of one raw batch can leave.
MergeOutcomes(target_df, raw) == { MergeInto(target_df, d) : d \in Dedup(raw) }

-----------------------------------------------------------------------------
(* Snapshot Reconciler *)

RECURSIVE Join(_, _)
Join(sep, strs) ==
  IF strs = << >> THEN ""
  ELSE IF Len(strs) = 1 THEN strs[1]
  ELSE strs[1] \o sep \o Join(sep, Tail(strs))

\* F.concat_ws: the non-NULL values joined by sep; never NULL itself.
concat_ws(sep, vals) ==
  LET present == SelectSeq(vals, LAMBDA v : v # NULL)
  IN  Join(sep, [i \in 1..Len(present) |-> present[i][1]])

temp_key(r) == concat_ws("_", KeyOf(r))

\* The join taken as a left semi join: the target rows that do have a
\* temp_key of the source.
records_in_most_recent_df(target_df, most_recent_records_df) ==
  { t \in RowsOf(target_df) :
      \E m \in most_recent_records_df : temp_key(t) = temp_key(m) }

\* target_df.join(most_recent_records_df, on=[temp_key], how="left_anti")
records_not_in_most_recent_df(target_df, most_recent_records_df) ==
  { t \in RowsOf(target_df) :
      \A m \in most_recent_records_df : temp_key(t) # temp_key(m) }

\* A delete condition over the first key column only.
delete_condition_first_col(target_df, rec) ==
  SqlEq(target_df[partition_by_cols[1]], rec[partition_by_cols[1]])

delete_condition(target_df, rec) ==
  \A i \in 1..Len(partition_by_cols) :
    SqlEq(target_df[partition_by_cols[i]], rec[partition_by_cols[i]])

\* The rows the DELETE ... WHERE EXISTS statement removes.
Deleted(target_df, most_recent_records_df) ==
  { t \in RowsOf(target_df) :
      \E o \in records_not_in_most_recent_df(target_df, most_recent_records_df) :
        delete_condition(t, o) }

Restrict(t, keep) == [ r \in keep |-> t[r] ]

DeleteOrphans(target_df, most_recent_records_df) ==
  Restrict(target_df, RowsOf(target_df) \ Deleted(target_df, most_recent_records_df))

\* The target a reconciliation pass over the source rows src leaves.
Reconciled(target_df, src) ==
  DeleteOrphans(target_df, CHOOSE m \in Dedup(src) : TRUE)

\* CurrentKeySet: the keys of the whole source, deduplicated by recency.
CurrentKeySet(src) == { KeyOf(r) : r \in src }

-----------------------------------------------------------------------------
(* History records *)

Wrote(op, pre, batch, src) == [op |-> op, pre |-> pre, batch |-> batch, src |-> src]

NoWrite == Wrote("none", EmptyTable, {}, {})

-----------------------------------------------------------------------------
(* Initial state: an empty source with its change data feed enabled, no    *)
(* target table, an empty checkpoint, nothing running.                     *)

Init ==
  /\ workload \in Workloads
  /\ source = {}
  /\ feed = << >>
  /\ tableExists = FALSE
  /\ targetCols = {}
  /\ target = EmptyTable
  /\ planned = 0
  /\ committed = 0
  /\ endOffset = 0
  /\ startOffset = 0
  /\ mainpc = "idle"
  /\ streampc = "off"
  /\ runs = 0
  /\ crashed = FALSE
  /\ mergedUpTo = 0
  /\ last = NoWrite
  /\ prev = NoWrite
  /\ shadow = { EmptyTable }

pipelineVars == << tableExists, targetCols, target, planned, committed, endOffset, startOffset,
                   mainpc, streampc, runs, crashed, mergedUpTo, last, prev, shadow >>

-----------------------------------------------------------------------------
(* Writers of the source table.  Each commit appends its change records to *)
(* the feed: insert, delete, or update_preimage followed by                *)
(* update_postimage.                                                       *)

Change(type, r) == [_change_type |-> type, row |-> r]

\* The source is written between runs, not during one, and only while a
\* later run can still see the write.
Quiescent == mainpc \in {"idle", "done"} /\ streampc = "off" /\ runs < MaxRuns

\* INSERT INTO source: one commit that adds rows.
SrcInsert ==
  /\ Quiescent
  /\ Len(feed) < MaxFeed
  /\ \E new \in (SUBSET (workload \ source)) \ {{}} :
       /\ source' = source \cup new
       /\ feed' = Append(feed, { Change("insert", r) : r \in new })
  /\ UNCHANGED << workload, pipelineVars >>

\* DELETE FROM source: one commit that removes rows.
SrcDelete ==
  /\ Quiescent
  /\ Len(feed) < MaxFeed
  /\ \E old \in (SUBSET source) \ {{}} :
       /\ source' = source \ old
       /\ feed' = Append(feed, { Change("delete", r) : r \in old })
  /\ UNCHANGED << workload, pipelineVars >>

\* UPDATE source: one commit that changes the non-key columns of one row.
SrcUpdate ==
  /\ Quiescent
  /\ Len(feed) < MaxFeed
  /\ \E r \in source, post \in workload \ source :
       /\ KeyOf(post) = KeyOf(r)
       /\ source' = (source \ {r}) \cup {post}
       /\ feed' = Append(feed, { Change("update_preimage", r),
                                  Change("update_postimage", post) })
  /\ UNCHANGED << workload, pipelineVars >>

-----------------------------------------------------------------------------
(* Driver thread: start_incremental_merge                                  *)

Invoke ==
  /\ mainpc \in {"idle", "done"}
  /\ streampc = "off"
  /\ runs < MaxRuns
  /\ runs' = runs + 1
  /\ mainpc' = "bootstrap"
  /\ UNCHANGED << workload, source, feed, tableExists, targetCols, target, planned, committed,
                  endOffset, startOffset, streampc, crashed, mergedUpTo, last, prev, shadow >>

\* A bootstrap that creates the table whether or not it exists.
BootstrapCreates_always == TRUE

\* if not spark.catalog.tableExists(self.target_table)
BootstrapCreates == ~tableExists

create_table_from_template_if_not_exists ==
  /\ mainpc = "bootstrap"
  /\ IF BootstrapCreates
     THEN /\ tableExists' = TRUE
          /\ targetCols' = SourceCols \ cols_to_remove
          /\ target' = EmptyTable
     ELSE UNCHANGED << tableExists, targetCols, target >>
  /\ mainpc' = "start"
  /\ UNCHANGED << workload, source, feed, planned, committed, endOffset, startOffset, streampc, runs,
                  crashed, mergedUpTo, last, prev, shadow >>

\* writeStream ... .trigger(availableNow=True).start(): the query is started
\* on its own thread and start() returns at once; the driver does not wait
\* for the query to end.
StartStream ==
  /\ mainpc = "start"
  /\ streampc' = "active"
  /\ endOffset' = Len(feed)
  /\ startOffset' = committed
  /\ mainpc' = "reconcile"
  /\ UNCHANGED << workload, source, feed, tableExists, targetCols, target, planned, committed,
                  runs, crashed, mergedUpTo, last, prev, shadow >>

\* Lines 126-157: the data frames are lazy, the DELETE statement evaluates
\* them and removes the rows in one transaction.
Reconcile ==
  /\ mainpc = "reconcile"
  /\ \E most_recent_records_df \in Dedup(source) :
       target' = DeleteOrphans(target, most_recent_records_df)
  /\ prev' = last
  /\ last' = Wrote("reconcile", target, {}, source)
  /\ shadow' = { Reconciled(s, source) : s \in shadow }
  /\ mainpc' = "done"
  /\ UNCHANGED << workload, source, feed, tableExists, targetCols, planned, committed, endOffset, startOffset,
                  streampc, runs, crashed, mergedUpTo >>

\* The pass fails part-way: some of the rows it was to delete, not all, are
\* gone, and the exception ends start_incremental_merge.  Followed while a
\* further run fits in MaxRuns.
ReconcileFail ==
  /\ runs < MaxRuns
  /\ mainpc = "reconcile"
  /\ \E most_recent_records_df \in Dedup(source) :
       \E gone \in SUBSET Deleted(target, most_recent_records_df) :
         /\ gone # Deleted(target, most_recent_records_df)
         /\ target' = Restrict(target, RowsOf(target) \ gone)
  /\ prev' = last
  /\ last' = Wrote("reconcile_failed", target, {}, source)
  /\ mainpc' = "idle"
  /\ UNCHANGED << workload, source, feed, tableExists, targetCols, planned, committed, endOffset, startOffset,
                  streampc, runs, crashed, mergedUpTo, shadow >>

-----------------------------------------------------------------------------
(* Streaming query thread                                                  *)

\* The rows of every change record of the commits lo+1..hi, of any type.
InsertsBetween_unfiltered(lo, hi) ==
  { c.row : c \in UNION { feed[i] : i \in (lo + 1)..hi } }

\* The change records of the commits lo+1..hi that pass
\* .filter("_change_type = 'insert'").
InsertsBetween(lo, hi) ==
  { c.row : c \in { c \in UNION { feed[i] : i \in (lo + 1)..hi } : c._change_type = "insert" } }

\* A query that takes whatever the feed holds when it plans a batch.
AvailableNow_latest == Len(feed)

\* trigger(availableNow=True): the query reads up to the end of the feed as
\* it was when the query started.
AvailableNow == endOffset

\* The query logs the offsets of the next micro-batch before running it.
PlanBatch ==
  /\ streampc = "active"
  /\ planned = committed
  /\ committed < AvailableNow
  /\ \E hi \in (committed + 1)..AvailableNow : planned' = hi
  /\ UNCHANGED << workload, source, feed, tableExists, targetCols, target, committed, endOffset, startOffset,
                  mainpc, streampc, runs, crashed, mergedUpTo, last, prev, shadow >>

foreach_batch_function ==
  /\ streampc = "active"
  /\ planned > committed
  /\ LET raw == InsertsBetween(committed, planned) IN
       /\ \E batch_df \in Dedup(raw) : target' = MergeInto(target, batch_df)
       /\ prev' = last
       /\ last' = Wrote("merge", target, raw, {})
       /\ shadow' = IF planned > mergedUpTo
                    THEN UNION { MergeOutcomes(s, raw) : s \in shadow }
                    ELSE shadow
  /\ mergedUpTo' = IF planned > mergedUpTo THEN planned ELSE mergedUpTo
  /\ streampc' = "merged"
  /\ UNCHANGED << workload, source, feed, tableExists, targetCols, planned, committed, endOffset, startOffset,
                  mainpc, runs, crashed >>

\* A MERGE that fails part-way having kept the rows of one batch record.
FailedMerge_partial(target_df, batch_df) ==
  IF batch_df = {} THEN target_df
  ELSE MergeInto(target_df, { CHOOSE b \in batch_df : TRUE })

\* The target a failed MERGE leaves: the statement is one transaction over
\* the whole batch, and a transaction that fails commits nothing.
FailedMerge(target_df, batch_df) == target_df

\* The MERGE of the batch function fails: the exception ends the query, which
\* has no retry of its own; the batch stays planned and uncommitted, so the
\* query of the next run starts with the same batch.  Followed while a
\* further run fits in MaxRuns.
MergeFail ==
  /\ runs < MaxRuns
  /\ streampc = "active"
  /\ planned > committed
  /\ LET raw == InsertsBetween(committed, planned) IN
       /\ \E batch_df \in Dedup(raw) : target' = FailedMerge(target, batch_df)
       /\ prev' = last
       /\ last' = Wrote("merge_failed", target, raw, {})
  /\ streampc' = "off"
  /\ UNCHANGED << workload, source, feed, tableExists, targetCols, planned, committed, endOffset, startOffset,
                  mainpc, runs, crashed, mergedUpTo, shadow >>

\* The commit not waiting for the batch function: it may be logged as soon
\* as the batch is planned.
BatchDone_eager == streampc \in {"active", "merged"}

\* The batch function has returned.
BatchDone == streampc = "merged"

\* The query logs the commit of the micro-batch after its function returned.
CommitBatch ==
  /\ BatchDone
  /\ planned > committed
  /\ committed' = planned
  /\ streampc' = "active"
  /\ UNCHANGED << workload, source, feed, tableExists, targetCols, target, planned, endOffset, startOffset,
                  mainpc, runs, crashed, mergedUpTo, last, prev, shadow >>

\* availableNow: the query stops once it has drained to endOffset.
StreamStop ==
  /\ streampc = "active"
  /\ planned = committed
  /\ committed >= AvailableNow
  /\ streampc' = "off"
  /\ UNCHANGED << workload, source, feed, tableExists, targetCols, target, planned, committed,
                  endOffset, startOffset, mainpc, runs, crashed, mergedUpTo, last, prev, shadow >>

\* The run is aborted: driver and query stop where they are; the tables and
\* the checkpoint keep what was committed to them.  Followed while a restart
\* fits in MaxRuns.
Crash ==
  /\ runs < MaxRuns
  /\ mainpc \in {"bootstrap", "start", "reconcile"} \/ streampc # "off"
  /\ crashed' = TRUE
  /\ mainpc' = "idle"
  /\ streampc' = "off"
  /\ UNCHANGED << workload, source, feed, tableExists, targetCols, target, planned, committed,
                  endOffset, startOffset, runs, mergedUpTo, last, prev, shadow >>

Next ==
  \/ SrcInsert
  \/ SrcDelete
  \/ SrcUpdate
  \/ Invoke
  \/ create_table_from_template_if_not_exists
  \/ StartStream
  \/ Reconcile
  \/ ReconcileFail
  \/ PlanBatch
  \/ foreach_batch_function
  \/ MergeFail
  \/ CommitBatch
  \/ StreamStop
  \/ Crash

Spec == Init /\ [][Next]_vars

\* INSERT INTO source by another writer while the query of a run is started.
SrcArrive ==
  /\ streampc # "off"
  /\ Len(feed) < MaxFeed
  /\ \E new \in (SUBSET (workload \ source)) \ {{}} :
       /\ source' = source \cup new
       /\ feed' = Append(feed, { Change("insert", r) : r \in new })
  /\ UNCHANGED << workload, pipelineVars >>

\* The runs in which nothing fails and nothing is aborted, with writers that
\* insert into the source before and during a run.
NextDrain ==
  \/ SrcInsert
  \/ SrcArrive
  \/ Invoke
  \/ create_table_from_template_if_not_exists
  \/ StartStream
  \/ Reconcile
  \/ PlanBatch
  \/ foreach_batch_function
  \/ CommitBatch
  \/ StreamStop

\* The driver runs the statements of start_incremental_merge one after the
\* other, and the query thread runs its micro-batch loop: a step of either
\* that stays possible is taken.  Invocations and source writes are not forced.
DrainFairness ==
  /\ WF_vars(create_table_from_template_if_not_exists)
  /\ WF_vars(StartStream)
  /\ WF_vars(Reconcile)
  /\ WF_vars(PlanBatch)
  /\ WF_vars(foreach_batch_function)
  /\ WF_vars(CommitBatch)
  /\ WF_vars(StreamStop)

SpecDrain == Init /\ [][NextDrain]_vars /\ DrainFairness

-----------------------------------------------------------------------------
(* Predicates shared by the properties below *)

\* The copies of rows with key k in table t.
RowsWithKey(t, k) == { r \in RowsOf(t) : KeyOf(r) = k }

CopiesWithKey(t, k) == SumCopies(t, RowsWithKey(t, k))

\* A run has ended: the driver passed its DELETE and the query drained and stopped.
RunComplete == mainpc = "done" /\ streampc = "off" /\ committed = endOffset

\* The records of a batch with key k whose recency is strictly greater than
\* that of every other record of the batch with key k.
StrictlyGreatest(raw, k) ==
  { w \in raw :
      /\ KeyOf(w) = k
      /\ \A q \in raw \ {w} :
           KeyOf(q) = k =>
             /\ w[order_by_col] # NULL
             /\ q[order_by_col] # NULL
             /\ w[order_by_col][1] > q[order_by_col][1] }

-----------------------------------------------------------------------------
(* C1 *)

\* C1 - Key uniqueness: the target never holds two rows whose key columns
\* are field by field equal, whatever bootstraps, batch merges (redelivered
\* ones included) and reconciliation passes have run.
C1_KeyUniqueness ==
  \A k \in KeySet(target) : CopiesWithKey(target, k) = 1

-----------------------------------------------------------------------------
(* C2 *)

\* C2 - Dedup-then-merge result: right after the merge of a batch, for every
\* key of the batch the target row of that key is the record of the batch
\* with the strictly greatest recency among the batch's records of the key.
C2_DedupThenMerge ==
  last.op = "merge" =>
    \A k \in { KeyOf(r) : r \in last.batch } :
      \A w \in StrictlyGreatest(last.batch, k) :
        /\ RowsWithKey(target, k) = {w}
        /\ target[w] = 1

-----------------------------------------------------------------------------
(* C3 *)

\* C3 - Stage ordering: when the reconciliation pass of a run has read the
\* source and the target and deleted, every batch pending in that run has
\* been merged and committed before, and no merge writes the target after
\* the pass.
C3_StageOrder ==
  mainpc = "done" => (committed >= endOffset /\ last.op = "reconcile")

-----------------------------------------------------------------------------
(* C4 *)

\* C4 - Deletion via absence: right after a reconciliation pass the keys of
\* the target are a subset of CurrentKeySet of the source the pass read.
C4_DeletionViaAbsence ==
  last.op = "reconcile" => KeySet(target) \subseteq CurrentKeySet(last.src)

-----------------------------------------------------------------------------
(* C5 *)

\* C5 - Reconciliation convergence: after a run whose ingestion has drained
\* and whose reconciliation pass has finished, with the source unchanged
\* during the run, the keys of the target are exactly CurrentKeySet.
C5_Convergence ==
  (RunComplete /\ committed = Len(feed)) =>
    KeySet(target) = CurrentKeySet(source)

-----------------------------------------------------------------------------
(* C6 *)

\* C6 - Key equality is field-wise everywhere: a reconciliation pass deletes
\* exactly the target rows whose key is field by field equal to no key of
\* CurrentKeySet, and a merge leaves one row for each key of its batch,
\* having treated the target row with field by field the same key as the
\* same entity.
C6_FieldwiseKeys ==
  /\ last.op = "reconcile" =>
       RowsOf(last.pre) \ RowsOf(target) =
         { t \in RowsOf(last.pre) : KeyOf(t) \notin CurrentKeySet(last.src) }
  /\ last.op = "merge" =>
       \A k \in { KeyOf(r) : r \in last.batch } : CopiesWithKey(target, k) = 1

-----------------------------------------------------------------------------
(* C7 *)

\* C7 - At-least-once checkpointing: the checkpoint never covers a batch
\* whose merge has not been applied to the target.
C7_CheckpointAfterMerge ==
  committed <= mergedUpTo

\* A run was aborted between the merge of a batch and its commit; the next
\* run has merged the redelivered batch again and the checkpoint has then
\* advanced past it.
C7_Witness ==
  /\ crashed
  /\ last.op = "merge"
  /\ prev.op = "merge"
  /\ last.batch = prev.batch
  /\ committed = planned
  /\ committed = mergedUpTo
  /\ committed > 0

-----------------------------------------------------------------------------
(* C8 *)

\* C8 - Crash and restart safety: when a run was aborted and a later run has
\* run to completion, the target is one that the same schedule with no abort,
\* hence no batch redelivered, would have produced.
C8_CrashRestart ==
  (crashed /\ RunComplete) => target \in shadow

-----------------------------------------------------------------------------
(* C9 *)

\* C9 - Merge idempotence: merging the same batch a second time, right after
\* merging it, leaves the target as the first merge left it.
C9_MergeIdempotent ==
  (last.op = "merge" /\ prev.op = "merge" /\ last.batch = prev.batch) =>
    target = last.pre

-----------------------------------------------------------------------------
(* C10 *)

\* A reconciliation pass follows a pass, complete or failed part-way, over
\* the same source, nothing else having written the target in between.
SecondPass ==
  /\ last.op = "reconcile"
  /\ prev.op \in {"reconcile", "reconcile_failed"}
  /\ prev.src = last.src

\* C10 - Reconciliation idempotence: a second pass against an unchanged
\* source leaves the target as one complete pass leaves it, also when the
\* first pass failed part-way; after a complete first pass, and over a target
\* with no orphans, a pass changes nothing.
C10_ReconcileIdempotent ==
  /\ SecondPass => target = Reconciled(prev.pre, prev.src)
  /\ (SecondPass /\ prev.op = "reconcile") => target = last.pre
  /\ (last.op = "reconcile" /\ KeySet(last.pre) \subseteq CurrentKeySet(last.src)) =>
       target = last.pre

\* A pass has completed the deletes of a pass that failed after deleting some
\* of the orphans, not all.
C10_Witness ==
  /\ SecondPass
  /\ prev.op = "reconcile_failed"
  /\ RowsOf(last.pre) # RowsOf(prev.pre)
  /\ RowsOf(target) # RowsOf(last.pre)

-----------------------------------------------------------------------------
(* C11 *)

\* C11 - Atomic per-batch merge: a merge attempt leaves the target with
\* every record of the deduplicated batch applied or, when it fails, as it
\* was; after a failure the checkpoint does not cover the batch, and the next
\* merge is of the same batch as a whole.
C11_AtomicMerge ==
  /\ last.op = "merge" => target \in MergeOutcomes(last.pre, last.batch)
  /\ last.op = "merge_failed" => (target = last.pre /\ committed < planned)
  /\ (last.op = "merge" /\ prev.op = "merge_failed") => last.batch = prev.batch

\* The merge of a batch of two records failed, the next run merged the same
\* batch and the checkpoint then advanced past it.
C11_Witness ==
  /\ prev.op = "merge_failed"
  /\ last.op = "merge"
  /\ Cardinality(last.batch) = 2
  /\ Cardinality(RowsOf(target)) = 2
  /\ committed = planned
  /\ committed > 0

-----------------------------------------------------------------------------
(* C12, C13 *)

\* C12 - Missing recency is an error: a batch, or a source history, holding
\* a record with no recency value is rejected, so no MERGE and no
\* reconciliation is ever carried out over such records.
C12_MissingRecencyRejected ==
  /\ last.op = "merge" => \A r \in last.batch : r[order_by_col] # NULL
  /\ last.op = "reconcile" => \A r \in last.src : r[order_by_col] # NULL

\* C13 - Deterministic dedup winner: the deduplication of a batch has one
\* result, also when records of a key tie on recency, so the merge of a batch
\* into a target has one outcome.
C13_DeterministicWinner ==
  last.op = "merge" =>
    /\ Cardinality(Dedup(last.batch)) = 1
    /\ Cardinality(MergeOutcomes(last.pre, last.batch)) = 1

-----------------------------------------------------------------------------
(* C14 *)

\* C14 - Bounded drain and termination: the query of an invocation never
\* plans a batch past the end of the feed as it was at the start, each merge
\* takes the change records that follow those already merged (oldest first,
\* none skipped), and every invocation ends with the driver done, the query
\* stopped and the checkpoint at the offset that was the end at the start.
C14_BoundedDrain ==
  /\ [](planned <= endOffset)
  /\ [][mergedUpTo' # mergedUpTo =>
          (mergedUpTo = committed /\ mergedUpTo' > mergedUpTo /\ mergedUpTo' <= endOffset)]_vars
  /\ [](mainpc = "bootstrap" => <>RunComplete)

\* A run has ended after merging what was pending at its start, while a
\* commit that arrived during the run is left in the feed unprocessed.
C14_Witness ==
  /\ RunComplete
  /\ committed > 0
  /\ committed = mergedUpTo
  /\ Len(feed) > endOffset

-----------------------------------------------------------------------------
(* C15, C16 *)

\* C15 - Insert-then-update across batches: after a batch holding only a
\* record of recency 1 for a key was merged and a later batch holding only a
\* record of recency 2 for the same key was merged, the target holds one row
\* for that key, the second record.
C15_InsertThenUpdate ==
  (last.op = "merge" /\ prev.op = "merge") =>
    \A A \in prev.batch : \A B \in last.batch :
      ( /\ prev.batch = {A}
        /\ last.batch = {B}
        /\ KeyOf(A) = KeyOf(B)
        /\ A[order_by_col] = Some(1)
        /\ B[order_by_col] = Some(2) )
      => (RowsWithKey(target, KeyOf(B)) = {B} /\ CopiesWithKey(target, KeyOf(B)) = 1)

\* C16 - Empty batch: the merge of a batch with no record leaves the target
\* as it was, and an invocation that starts with no insert record pending
\* still reconciles: after its DELETE no target row has a key that is absent
\* from the source.
C16_EmptyBatch ==
  /\ (last.op = "merge" /\ last.batch = {}) => target = last.pre
  /\ ( /\ mainpc = "done"
       /\ last.op = "reconcile"
       /\ InsertsBetween(startOffset, endOffset) = {} )
     => KeySet(target) \subseteq CurrentKeySet(last.src)

-----------------------------------------------------------------------------
(* C17, C18 *)

\* C17 - Schema bootstrap is idempotent: the bootstrap of a run that finds
\* the target table leaves the table, its columns and its rows as they are;
\* an existing table is never created again, and its columns are those of the
\* source less the excluded ones.
C17_BootstrapIdempotent ==
  /\ [](tableExists => targetCols = SourceCols \ cols_to_remove)
  /\ [][tableExists => tableExists']_vars
  /\ [][(mainpc = "bootstrap" /\ mainpc' = "start" /\ tableExists)
          => UNCHANGED << tableExists, targetCols, target >>]_vars

\* The bootstrap of a second run has passed over a target that holds rows.
C17_Witness ==
  /\ mainpc = "start"
  /\ runs = 2
  /\ tableExists
  /\ target # EmptyTable

\* C18 - Unconditional overwrite: after the merge of a batch, for every key
\* of the batch the target row of that key is the winner of the batch,
\* whatever recency the row the target held before had.
C18_UnconditionalOverwrite ==
  last.op = "merge" =>
    \A part \in Partitions(last.batch) :
      \E w \in FirstRows(part) : RowsWithKey(target, KeyOf(w)) = {w}

-----------------------------------------------------------------------------
(* C19, C20 *)

\* The keys of the records of a batch.
BatchKeys(raw) == { KeyOf(r) : r \in raw }

\* C19 - Row lifecycle: a merge removes no key from the target and leaves
\* the rows whose key is not in the batch as they were; a reconciliation,
\* also one that fails part-way, adds no row, changes no row it keeps, and
\* removes only rows whose key is absent from the keys of the source; a
\* failed merge changes nothing.
C19_RowLifecycle ==
  /\ last.op = "merge" =>
       /\ KeySet(last.pre) \subseteq KeySet(target)
       /\ \A t \in RowsOf(last.pre) :
            KeyOf(t) \notin BatchKeys(last.batch)
              => (t \in RowsOf(target) /\ target[t] = last.pre[t])
  /\ last.op = "merge_failed" => target = last.pre
  /\ last.op \in {"reconcile", "reconcile_failed"} =>
       /\ RowsOf(target) \subseteq RowsOf(last.pre)
       /\ \A t \in RowsOf(target) : target[t] = last.pre[t]
       /\ \A t \in RowsOf(last.pre) \ RowsOf(target) :
            KeyOf(t) \notin CurrentKeySet(last.src)

\* A reconciliation removed the row of a key that left the source and kept
\* the row of a key that is still there.
C19_Witness ==
  /\ last.op = "reconcile"
  /\ RowsOf(target) # {}
  /\ RowsOf(target) # RowsOf(last.pre)
  /\ KeySet(target) \subseteq CurrentKeySet(last.src)

\* The rows of the insert records of the feed.
InsertedRows == { c.row : c \in { c \in UNION { feed[i] : i \in 1..Len(feed) } :
                                    c._change_type = "insert" } }

\* C20 - Only insert-type change records reach the merge: every record of a
\* merged batch, and every row of the target, is the row of an insert record
\* of the feed; the rows of update and delete records are never merged.
C20_InsertsOnly ==
  /\ last.op \in {"merge", "merge_failed"} => last.batch \subseteq InsertedRows
  /\ RowsOf(target) \subseteq InsertedRows

\* The query has merged and committed past a commit that holds the
\* post-image of an update, and the post-image is not in the target.
C20_Witness ==
  /\ last.op = "merge"
  /\ \E i \in 1..committed : \E c \in feed[i] :
       /\ c._change_type = "update_postimage"
       /\ c.row \notin RowsOf(target)
  /\ RowsOf(target) # {}

====
